---- MODULE Spec2Model ----
(***************************************************************************)
(* Model of the three calculators of "Quantitative Analysis":              *)
(*   MicrostripAnalysis (microstrip_analysis.py),                          *)
(*   LPFDesign          (lpf_design.py),                                   *)
(*   ResonatorAnalysis  (resonator_analysis.py).                           *)
(*                                                                         *)
(* The three scripts are run separately: a run constructs one object of    *)
(* one of the classes (obj) and calls its methods; ret is the latest call: *)
(* its arguments, the object as it was before the call (before), and what  *)
(* the call returned or raised.                                            *)
(*                                                                         *)
(* Numbers.  The code computes in float64; the model computes in fixed     *)
(* point: a real x is the integer floor(x * Scale).  Lengths are in mm,    *)
(* frequencies in GHz, impedances in ohm, so that c = 299.792 mm*GHz and   *)
(* every intermediate value fits a 32-bit integer.  A complex number is a  *)
(* record [re, im] of two fixed-point numbers; an array is a sequence.     *)
(***************************************************************************)
EXTENDS Integers, Sequences, FiniteSets, TLC

VARIABLES obj, ret

vars == <<obj, ret>>

(***************************************************************************)
(* Fixed-point arithmetic standing for float64 arithmetic.                 *)
(***************************************************************************)
Scale == 10 * 10 * 10

Abs(x) == IF x < 0 THEN -x ELSE x

\* a * b  (floor of the exact product, computed without leaving 32 bits)
Mul(a, b) == (a \div Scale) * b + ((a % Scale) * b) \div Scale

RECURSIVE LongDiv(_, _)
\* n / d for d > 0; a divisor too large for the 32-bit long division is halved
\* together with the dividend (a relative error below 1e-6)
LongDiv(n, d) ==
    IF d >= 2000000 THEN LongDiv(n \div 2, d \div 2)
    ELSE (n \div d) * Scale + ((n % d) * Scale) \div d

\* a / b for b # 0 (floor of the exact quotient)
Div(a, b) == LongDiv(IF b < 0 THEN -a ELSE a, Abs(b))

RECURSIVE IsqrtIter(_, _)
IsqrtIter(n, x) ==
    LET y == (x + n \div x) \div 2
    IN  IF y >= x THEN x ELSE IsqrtIter(n, y)

\* np.sqrt(a) for a >= 0
Sqrt(a) == IF a <= 0 THEN 0 ELSE IsqrtIter(a * Scale, a * Scale)

RECURSIVE ExpSeries(_, _, _, _)
ExpSeries(x, term, k, acc) ==
    IF term = 0 THEN acc
    ELSE ExpSeries(x, Mul(term, x) \div k, k + 1, acc + term)

\* np.exp(x) for real x; below ExpFloor the result is under one unit of the
\* fixed-point grid (float64 keeps a tiny positive number there).
ExpFloor == -7 * Scale
Exp(x) ==
    IF x >= 0 THEN ExpSeries(x, Scale, 1, 0)
    ELSE IF x < ExpFloor THEN 0
    ELSE Div(Scale, ExpSeries(-x, Scale, 1, 0))

Ln2 == 693

RECURSIVE AtanhSeries(_, _, _, _)
AtanhSeries(z2, term, k, acc) ==
    IF term = 0 THEN acc
    ELSE AtanhSeries(z2, Mul(term, z2), k + 2, acc + term \div k)

RECURSIVE Ln(_)
\* np.log(x) for x > 0
Ln(x) ==
    IF x >= 2 * Scale THEN Ln2 + Ln(x \div 2)
    ELSE IF x < Scale THEN Ln(2 * x) - Ln2
    ELSE LET z == Div(x - Scale, x + Scale)
         IN  2 * AtanhSeries(Mul(z, z), z, 1, 0)

Pi == 3142
TwoPi == 6283

RECURSIVE TrigSeries(_, _, _, _)
\* sum of term, -term*x2/((k+1)(k+2)), ... (the sine or cosine series)
TrigSeries(x2, term, k, acc) ==
    IF term = 0 THEN acc
    ELSE TrigSeries(x2, (-Mul(term, x2)) \div ((k + 1) * (k + 2)), k + 2, acc + term)

Reduce(x) == LET r == x % TwoPi IN IF r > Pi THEN r - TwoPi ELSE r
Cos(x) == LET r == Reduce(x) IN TrigSeries(Mul(r, r), Scale, 0, 0)
Sin(x) == LET r == Reduce(x) IN TrigSeries(Mul(r, r), r, 1, 0)


(***************************************************************************)
(* Complex numbers and arrays (numpy broadcasting is element by element).  *)
(***************************************************************************)
Cx(re, im) == [re |-> re, im |-> im]
CAdd(a, b) == Cx(a.re + b.re, a.im + b.im)
CSub(a, b) == Cx(a.re - b.re, a.im - b.im)
CMul(a, b) == Cx(Mul(a.re, b.re) - Mul(a.im, b.im), Mul(a.re, b.im) + Mul(a.im, b.re))
CDiv(a, b) ==
    LET den == Mul(b.re, b.re) + Mul(b.im, b.im)
    IN  Cx(Div(Mul(a.re, b.re) + Mul(a.im, b.im), den),
           Div(Mul(a.im, b.re) - Mul(a.re, b.im), den))
\* np.exp of a complex number
CExp(z) == LET m == Exp(z.re) IN Cx(Mul(m, Cos(z.im)), Mul(m, Sin(z.im)))
COne == Cx(Scale, 0)

\* np.linspace(start, stop, num): num samples, the last one set to stop
linspace(f_range) ==
    LET start == f_range[1]
        stop  == f_range[2]
        num   == f_range[3]
        step  == IF num > 1 THEN Div(stop - start, (num - 1) * Scale) ELSE 0
    IN  [i \in 1..num |-> IF num > 1 /\ i = num THEN stop ELSE start + (i - 1) * step]

\* scipy.constants.c = 299792458 m/s = 299.792 mm*GHz
c == 299792

(***************************************************************************)
(* Inputs the callers choose.                                              *)
(***************************************************************************)
MaxCount == 2
MaxOrder == 7

Bands == {<<5000, 10000>>, <<0, 6000>>, <<6000, 1000>>}
FRanges == {<<b[1], b[2], n>> : b \in Bands, n \in 0..MaxCount}
Widths == {0, 500, 1600, 2000, 3088}
LossTangents == {0, 25}
Lengths == {0, 20, 10000}
Heights == {0, 1600}
Permittivities == {2200, 4400}
ZTargets == {20000, 30000, 44000, 50000, 70000, 100000}
Cutoffs == {-3000, 3000}
Orders == 0..MaxOrder
Gaps == {50, 100}
ResWidths == {1000, 2000}
Dims == {6000, 8000}

(***************************************************************************)
(* MicrostripAnalysis                                                      *)
(***************************************************************************)
\* __init__: eff_er and Z0 are not attributes of a new object (attrs lists
\* the attributes that exist; an absent attribute is shown as 0)
MicrostripAnalysis(er, h, tand, f_range) ==
    [class |-> "MicrostripAnalysis",
     er |-> er, h |-> h, tand |-> tand, f |-> linspace(f_range), c |-> c,
     eff_er |-> 0, Z0 |-> 0, attrs |-> {"er", "h", "tand", "f", "c"}]

\* x ** (-0.5)
PowNegHalf(x) == Div(Scale, Sqrt(x))

\* line 18: the wide-line effective permittivity
eff_er_wide(er, h, w) ==
    Div(er + Scale, 2 * Scale)
    + Mul(Div(er - Scale, 2 * Scale), PowNegHalf(Scale + Div(12 * h, w)))

\* line 20: the narrow-line effective permittivity
eff_er_narrow(er, h, w) ==
    Div(er + Scale, 2 * Scale)
    + Mul(Div(er - Scale, 2 * Scale),
          PowNegHalf(Scale + Div(12 * h, w))
          + Mul(40, Mul(Scale - Div(w, h), Scale - Div(w, h))))

\* lines 17-20: the value assigned to self.eff_er
eff_er_formula(er, h, w) ==
    IF Div(w, h) >= Scale THEN eff_er_wide(er, h, w) ELSE eff_er_narrow(er, h, w)

\* line 24: the wide-line characteristic impedance
Z0_wide(eff_er, h, w) ==
    Div(120 * Pi,
        Mul(Sqrt(eff_er), Div(w, h) + 1393 + Mul(667, Ln(Div(w, h) + 1444))))

\* line 26: the narrow-line characteristic impedance
Z0_narrow(eff_er, h, w) ==
    Mul(Div(60 * Scale, Sqrt(eff_er)), Ln(Div(8 * h, w) + Div(w, 4 * h)))

\* mutant of Z0_formula: the comparison is strict, so that w = h takes the
\* narrow-line impedance with the wide-line permittivity
Z0_formula_strict(eff_er, h, w) ==
    IF Div(w, h) > Scale THEN Z0_wide(eff_er, h, w) ELSE Z0_narrow(eff_er, h, w)

\* lines 23-26: the value assigned to self.Z0
Z0_formula(eff_er, h, w) ==
    IF Div(w, h) >= Scale THEN Z0_wide(eff_er, h, w) ELSE Z0_narrow(eff_er, h, w)

\* mutant of store_eff_er: eff_er is computed once and then reused whatever w is
store_eff_er_cached(self, w) ==
    IF "eff_er" \in self.attrs THEN self
    ELSE [self EXCEPT !.eff_er = eff_er_formula(self.er, self.h, w),
                      !.attrs = @ \cup {"eff_er"}]

\* self.eff_er = ...
store_eff_er(self, w) ==
    [self EXCEPT !.eff_er = eff_er_formula(self.er, self.h, w),
                 !.attrs = @ \cup {"eff_er"}]

\* mutant of store_Z0: the result is also written over the substrate height
store_Z0_over_h(self, w) ==
    [self EXCEPT !.Z0 = Z0_formula(self.eff_er, self.h, w),
                 !.h = Z0_formula(self.eff_er, self.h, w),
                 !.attrs = @ \cup {"Z0"}]

\* mutant of store_Z0: self.Z0 is stored once and then kept whatever w is
store_Z0_once(self, w) ==
    IF "Z0" \in self.attrs THEN self
    ELSE [self EXCEPT !.Z0 = Z0_formula(self.eff_er, self.h, w),
                      !.attrs = @ \cup {"Z0"}]

\* self.Z0 = ... (reads self.eff_er just stored)
store_Z0(self, w) ==
    [self EXCEPT !.Z0 = Z0_formula(self.eff_er, self.h, w),
                 !.attrs = @ \cup {"Z0"}]

\* calc_microstrip_params(self, w): the object after the call, the exception
\* raised ("none" when the call returns) and the returned pair.  w/self.h
\* raises when self.h = 0 and 12*self.h/w raises when w = 0, both before the
\* first assignment.
calc_microstrip_params(self, w) ==
    IF self.h = 0 \/ w = 0
    THEN [self |-> self, raised |-> "ZeroDivisionError", Z0 |-> 0, eff_er |-> 0]
    ELSE LET s == store_Z0(store_eff_er(self, w), w)
         IN  [self |-> s, raised |-> "none", Z0 |-> s.Z0, eff_er |-> s.eff_er]

\* line 35
beta_of(self, eff_er) ==
    [i \in DOMAIN self.f |-> Div(Mul(Mul(2 * Pi, self.f[i]), Sqrt(eff_er)), self.c)]

\* sqrt(1e9) / 1000: np.sqrt(self.f) takes f in Hz and alpha is per metre;
\* the model has f in GHz and alpha per mm
SqrtHzPerMm == 31623

\* lines 38-40
alpha_of(self, eff_er) ==
    [i \in DOMAIN self.f |->
        Div(Mul(Mul(Mul(Pi, self.f[i]), Sqrt(eff_er)), self.tand), self.c)
        + Mul(Mul(Mul(8686, 100), SqrtHzPerMm), Sqrt(self.f[i]))]

\* lines 43, 52: exp_gl = np.exp(-gamma * length), gamma = alpha + 1j*beta
exp_gl_of(alpha, beta, length) ==
    [i \in DOMAIN beta |-> CExp(Cx(-Mul(alpha[i], length), -Mul(beta[i], length)))]

\* line 49
rho_of(Z0) == Div(Z0 - 50 * Scale, Z0 + 50 * Scale)

\* line 54
S11_of(rho, exp_gl) ==
    [i \in DOMAIN exp_gl |->
        LET e2 == CMul(exp_gl[i], exp_gl[i])
            r2 == Cx(Mul(rho, rho), 0)
        IN  CDiv(CMul(Cx(rho, 0), CSub(COne, e2)), CSub(COne, CMul(r2, e2)))]

\* line 55
S21_of(rho, exp_gl) ==
    [i \in DOMAIN exp_gl |->
        LET e2 == CMul(exp_gl[i], exp_gl[i])
            r2 == Cx(Mul(rho, rho), 0)
        IN  CDiv(CMul(exp_gl[i], CSub(COne, r2)), CSub(COne, CMul(r2, e2)))]

\* mutant of S12_of: S12 = -S21
S12_negated(S21) == [i \in DOMAIN S21 |-> Cx(-S21[i].re, -S21[i].im)]

\* line 56: S12 = S21
S12_of(S21) == S21

\* line 57: S22 = S11
S22_of(S11) == S11

\* calc_s_parameters(self, w, length)
calc_s_parameters(self, w, length) ==
    LET p == calc_microstrip_params(self, w)
    IN  IF p.raised # "none"
        THEN [self |-> p.self, raised |-> p.raised,
              S11 |-> <<>>, S21 |-> <<>>, S12 |-> <<>>, S22 |-> <<>>, Z0 |-> 0]
        ELSE LET beta   == beta_of(p.self, p.eff_er)
                 alpha  == alpha_of(p.self, p.eff_er)
                 exp_gl == exp_gl_of(alpha, beta, length)
                 rho    == rho_of(p.Z0)
                 S11    == S11_of(rho, exp_gl)
                 S21    == S21_of(rho, exp_gl)
             IN  [self |-> p.self, raised |-> "none",
                  S11 |-> S11, S21 |-> S21, S12 |-> S12_of(S21), S22 |-> S22_of(S11),
                  Z0 |-> p.Z0]


(***************************************************************************)
(* LPFDesign                                                               *)
(***************************************************************************)
\* __init__
LPFDesign(er, h, tand) ==
    [class |-> "LPFDesign", er |-> er, h |-> h, tand |-> tand, c |-> c,
     Z0 |-> 50 * Scale]

\* line 17: the Z_target < 44 branch
w_h_low(er) ==
    Mul(Mul(Div(2 * Scale, Pi), er - Scale), Ln(Div(Pi, 2 * Scale)))
    + Mul(Div(Scale, Pi), Ln(Div(4 * Scale, Pi)))

\* lines 19-20: the other branch
w_h_high(er, Z_target) ==
    LET A == Div(Mul(Z_target, Sqrt(Div(er + Scale, 2 * Scale))), 60 * Scale)
             + Mul(Div(er - Scale, er + Scale), 230 + Div(110, er))
    IN  Div(8 * Exp(A), Exp(2 * A) - 2 * Scale)

\* mutant of calc_microstrip_width: the branch test is inverted
calc_microstrip_width_inverted(self, Z_target) ==
    LET w_h == IF Z_target >= 44 * Scale THEN w_h_low(self.er)
               ELSE w_h_high(self.er, Z_target)
    IN  Mul(w_h, self.h)

\* mutant of calc_microstrip_width: the threshold is 4.4 instead of 44
calc_microstrip_width_threshold(self, Z_target) ==
    LET w_h == IF Z_target < 4400 THEN w_h_low(self.er)
               ELSE w_h_high(self.er, Z_target)
    IN  Mul(w_h, self.h)

\* calc_microstrip_width(self, Z_target)
calc_microstrip_width(self, Z_target) ==
    LET w_h == IF Z_target < 44 * Scale THEN w_h_low(self.er)
               ELSE w_h_high(self.er, Z_target)
    IN  Mul(w_h, self.h)

\* line 27: g[0..6], Chebyshev prototype values for n=5, 0.1dB ripple
g_table == <<1000, 618, 1618, 2000, 1618, 618, 1000>>

\* line 35
Z_h_formula(self, g) ==
    Mul(self.Z0, Sqrt(Scale + Mul(Mul(g, Div(Pi, 2 * Scale)), Div(self.Z0, 50 * Scale))))

\* line 38
Z_l_formula(self, g) ==
    Div(self.Z0, Sqrt(Scale + Mul(Mul(g, Div(Pi, 2 * Scale)), Div(50 * Scale, self.Z0))))

RECURSIVE section_loop_swapped(_, _, _, _, _)
\* mutant of section_loop: the parity test is inverted (i % 2 == 0 is high)
section_loop_swapped(self, i, n, Z_high, Z_low) ==
    IF i > n THEN [raised |-> "none", Z_high |-> Z_high, Z_low |-> Z_low]
    ELSE IF i + 1 > Len(g_table)
    THEN [raised |-> "IndexError", Z_high |-> Z_high, Z_low |-> Z_low]
    ELSE IF i % 2 = 0
    THEN section_loop_swapped(self, i + 1, n,
                              Append(Z_high, Z_h_formula(self, g_table[i + 1])), Z_low)
    ELSE section_loop_swapped(self, i + 1, n, Z_high,
                              Append(Z_low, Z_l_formula(self, g_table[i + 1])))

RECURSIVE section_loop(_, _, _, _, _)
\* lines 33-39: for i in range(1, n+1); g[i] raises IndexError past the table
section_loop(self, i, n, Z_high, Z_low) ==
    IF i > n THEN [raised |-> "none", Z_high |-> Z_high, Z_low |-> Z_low]
    ELSE IF i + 1 > Len(g_table)
    THEN [raised |-> "IndexError", Z_high |-> Z_high, Z_low |-> Z_low]
    ELSE IF i % 2 = 1
    THEN section_loop(self, i + 1, n, Append(Z_high, Z_h_formula(self, g_table[i + 1])), Z_low)
    ELSE section_loop(self, i + 1, n, Z_high, Append(Z_low, Z_l_formula(self, g_table[i + 1])))

NoDesign ==
    [Z_high |-> <<>>, Z_low |-> <<>>, widths_high |-> <<>>, widths_low |-> <<>>,
     section_length |-> 0, lambda_g |-> 0]

\* design_stepped_lpf(self, fc, n), fc # 0
design_stepped_lpf(self, fc, n) ==
    LET z == section_loop(self, 1, n, <<>>, <<>>)
        lambda_g == Div(self.c, Mul(fc, Sqrt(self.er)))
    IN  IF z.raised # "none" THEN [raised |-> z.raised, design |-> NoDesign]
        ELSE [raised |-> "none",
              design |->
                [Z_high |-> z.Z_high,
                 Z_low |-> z.Z_low,
                 widths_high |-> [k \in DOMAIN z.Z_high |-> calc_microstrip_width(self, z.Z_high[k])],
                 widths_low |-> [k \in DOMAIN z.Z_low |-> calc_microstrip_width(self, z.Z_low[k])],
                 section_length |-> Div(lambda_g, 8 * Scale),
                 lambda_g |-> lambda_g]]

\* mutant of ones: one sample short
ones_short(n) == [i \in 1..(n - 1) |-> COne]

\* line 65: np.ones(len(f), dtype=complex)
ones(n) == [i \in 1..n |-> COne]

\* lines 70-73: one high-impedance section; XL = 2*pi*f*1e-9 with f in Hz is
\* 2*pi*f with f in GHz
high_section(self, S21_total, f, Z_h) ==
    [i \in DOMAIN S21_total |->
        LET XL == Mul(2 * Pi, f[i])
            Z_series == Cx(Z_h, XL)
        IN  CMul(S21_total[i],
                 CDiv(Cx(2 * self.Z0, 0), CAdd(Z_series, Cx(2 * self.Z0, 0))))]

\* lines 78-81: one low-impedance section; XC = -1/(2*pi*f*1e-12) with f in Hz
\* is -1000/(2*pi*f) with f in GHz, and -inf at f = 0, where 1j/XC is 0
low_section(self, S21_total, f, Z_l) ==
    [i \in DOMAIN S21_total |->
        LET jOverXC == IF f[i] = 0 THEN 0
                       ELSE Div(Scale, Div(-1000 * Scale, Mul(2 * Pi, f[i])))
            Y_shunt == Cx(Div(Scale, Z_l), jOverXC)
        IN  CMul(S21_total[i],
                 CDiv(COne, CAdd(COne, Cx(Div(Mul(Y_shunt.re, self.Z0), 2 * Scale),
                                          Div(Mul(Y_shunt.im, self.Z0), 2 * Scale)))))]

RECURSIVE high_loop(_, _, _, _, _)
\* line 68: for Z_h in design_params['Z_high']
high_loop(self, S21_total, f, Z_high, k) ==
    IF k > Len(Z_high) THEN S21_total
    ELSE high_loop(self, high_section(self, S21_total, f, Z_high[k]), f, Z_high, k + 1)

RECURSIVE low_loop(_, _, _, _, _)
\* line 76: for Z_l in design_params['Z_low']
low_loop(self, S21_total, f, Z_low, k) ==
    IF k > Len(Z_low) THEN S21_total
    ELSE low_loop(self, low_section(self, S21_total, f, Z_low[k]), f, Z_low, k + 1)

\* calc_lpf_response(self, design_params, f_range); design_params is only read
calc_lpf_response(self, design_params, f_range) ==
    LET f == linspace(f_range)
        S21_total == low_loop(self,
                              high_loop(self, ones(Len(f)), f, design_params.Z_high, 1),
                              f, design_params.Z_low, 1)
    IN  [f |-> f,
         S11 |-> [i \in DOMAIN S21_total |-> CSub(COne, S21_total[i])],
         S21 |-> S21_total,
         design_params |-> design_params]

(***************************************************************************)
(* ResonatorAnalysis                                                       *)
(***************************************************************************)
\* __init__
ResonatorAnalysis(er, h, tand) ==
    [class |-> "ResonatorAnalysis", er |-> er, h |-> h, tand |-> tand, c |-> c]

\* calc_resonator_length(self, f_res, w)
calc_resonator_length(self, f_res, w) ==
    LET eff_er == Div(self.er + Scale, 2 * Scale)
                  + Mul(Div(self.er - Scale, 2 * Scale),
                        PowNegHalf(Scale + Div(12 * self.h, w)))
        lambda_g == Div(self.c, Mul(f_res, Sqrt(eff_er)))
    IN  [length |-> Div(lambda_g, 4 * Scale), eff_er |-> eff_er]

\* line 29: k = 0.1 * np.exp(-g/self.h)
k_of(self, g) == Mul(100, Exp(-Div(g, self.h)))

\* lines 32-34
Q_total == Div(Scale, Div(Scale, 100 * Scale) + Div(Scale, 1000 * Scale))

\* line 41
delta_of(f, f_res) == [i \in DOMAIN f |-> Div(f[i] - f_res, f_res)]

\* mutant of res_S11_of: the numerator 1j*Q_total*delta is lost
res_S11_unit(delta) ==
    [i \in DOMAIN delta |-> CDiv(COne, CAdd(COne, Cx(0, Mul(Q_total, delta[i]))))]

\* line 43
res_S11_of(delta) ==
    [i \in DOMAIN delta |->
        LET jQd == Cx(0, Mul(Q_total, delta[i]))
        IN  CDiv(jQd, CAdd(COne, jQd))]

\* line 44
res_S21_of(k, delta) ==
    [i \in DOMAIN delta |->
        CDiv(Cx(k, 0), CAdd(COne, Cx(0, Mul(Q_total, delta[i]))))]

\* calc_resonator_s_params(self, d, g, w, f_range); d is not read
calc_resonator_s_params(self, d, g, w, f_range) ==
    LET f == linspace(f_range)
        k == k_of(self, g)
        r == calc_resonator_length(self, 5 * Scale, w)
        f_res == Div(self.c, Mul(Mul(4 * Scale, r.length), Sqrt(r.eff_er)))
        delta == delta_of(f, f_res)
    IN  [f |-> f, S11 |-> res_S11_of(delta), S21 |-> res_S21_of(k, delta),
         f_res |-> f_res, length |-> r.length, k |-> k]

(***************************************************************************)
(* The state machine                                                       *)
(***************************************************************************)
Init ==
    /\ \/ \E h \in Heights, tand \in LossTangents, fr \in FRanges :
              obj = MicrostripAnalysis(4400, h, tand, fr)
       \/ \E er \in Permittivities : obj = LPFDesign(er, 1600, 25)
       \/ obj = ResonatorAnalysis(4400, 1600, 25)
    /\ ret = [op |-> "none"]

CalcMicrostripParams ==
    /\ obj.class = "MicrostripAnalysis"
    /\ \E w \in Widths :
        LET r == calc_microstrip_params(obj, w)
        IN  /\ obj' = r.self
            /\ ret' = [op |-> "calc_microstrip_params", before |-> obj, w |-> w, raised |-> r.raised,
                       Z0 |-> r.Z0, eff_er |-> r.eff_er]

CalcSParameters ==
    /\ obj.class = "MicrostripAnalysis"
    /\ \E w \in Widths, length \in Lengths :
        LET r == calc_s_parameters(obj, w, length)
        IN  /\ obj' = r.self
            /\ ret' = [op |-> "calc_s_parameters", before |-> obj, w |-> w, length |-> length,
                       raised |-> r.raised, S11 |-> r.S11, S21 |-> r.S21,
                       S12 |-> r.S12, S22 |-> r.S22, Z0 |-> r.Z0]

CalcMicrostripWidth ==
    /\ obj.class = "LPFDesign"
    /\ \E Z \in ZTargets :
        /\ ret' = [op |-> "calc_microstrip_width", before |-> obj, Z_target |-> Z, raised |-> "none",
                   w |-> calc_microstrip_width(obj, Z)]
        /\ UNCHANGED obj

DesignSteppedLpf ==
    /\ obj.class = "LPFDesign"
    /\ \E fc \in Cutoffs, n \in Orders :
        LET r == design_stepped_lpf(obj, fc, n)
        IN  /\ ret' = [op |-> "design_stepped_lpf", before |-> obj, fc |-> fc, n |-> n,
                       raised |-> r.raised, design |-> r.design]
            /\ UNCHANGED obj

\* designer.calc_lpf_response(design_params, f_range) on the design that the
\* latest design_stepped_lpf call returned (question_9's sequence)
CalcLpfResponse ==
    /\ obj.class = "LPFDesign"
    /\ ret.op = "design_stepped_lpf"
    /\ ret.raised = "none"
    /\ \E fr \in FRanges :
        LET r == calc_lpf_response(obj, ret.design, fr)
        IN  /\ ret' = [op |-> "calc_lpf_response", before |-> obj, f_range |-> fr, raised |-> "none",
                       design_before |-> ret.design, design_params |-> r.design_params,
                       f |-> r.f, S11 |-> r.S11, S21 |-> r.S21]
            /\ UNCHANGED obj

CalcResonatorLength ==
    /\ obj.class = "ResonatorAnalysis"
    /\ \E f_res \in {5 * Scale, 8 * Scale}, w \in ResWidths :
        LET r == calc_resonator_length(obj, f_res, w)
        IN  /\ ret' = [op |-> "calc_resonator_length", before |-> obj, f_res |-> f_res, w |-> w,
                       raised |-> "none", length |-> r.length, eff_er |-> r.eff_er]
            /\ UNCHANGED obj

CalcResonatorSParams ==
    /\ obj.class = "ResonatorAnalysis"
    /\ \E d \in Dims, g \in Gaps, w \in ResWidths, fr \in FRanges :
        LET r == calc_resonator_s_params(obj, d, g, w, fr)
        IN  /\ ret' = [op |-> "calc_resonator_s_params", before |-> obj, d |-> d, g |-> g, w |-> w,
                       f_range |-> fr, raised |-> "none",
                       f |-> r.f, S11 |-> r.S11, S21 |-> r.S21,
                       f_res |-> r.f_res, length |-> r.length, k |-> r.k]
            /\ UNCHANGED obj

Next ==
    \/ CalcMicrostripParams
    \/ CalcSParameters
    \/ CalcMicrostripWidth
    \/ DesignSteppedLpf
    \/ CalcLpfResponse
    \/ CalcResonatorLength
    \/ CalcResonatorSParams

Spec == Init /\ [][Next]_vars

(***************************************************************************)
(* Claims                                                                  *)
(***************************************************************************)
Returned(op) == ret.op = op /\ ret.raised = "none"

\* C1: design_stepped_lpf called with an order n other than 5 fails with
\* UnsupportedOrder (it returns no design and raises nothing else).
C1_UnsupportedOrderRaised ==
    (ret.op = "design_stepped_lpf" /\ ret.n # 5) => ret.raised = "UnsupportedOrder"

\* C2: design_stepped_lpf(fc=3e9, n=5) returns 3 high-impedance and 2
\* low-impedance sections, with as many widths as impedances in each list.
C2_ThreeHighTwoLow ==
    (ret.op = "design_stepped_lpf" /\ ret.fc = 3 * Scale /\ ret.n = 5) =>
        /\ ret.raised = "none"
        /\ Len(ret.design.Z_high) = 3
        /\ Len(ret.design.Z_low) = 2
        /\ Len(ret.design.widths_high) = 3
        /\ Len(ret.design.widths_low) = 2

C2_Witness ==
    /\ Returned("design_stepped_lpf")
    /\ ret.fc = 3 * Scale
    /\ ret.n = 5
    /\ Len(ret.design.Z_high) = 3

\* C3: the arrays returned by calc_s_parameters have S12 = S21 and S22 = S11
\* at every sweep index.
C3_ReciprocalSymmetric ==
    Returned("calc_s_parameters") =>
        /\ DOMAIN ret.S12 = DOMAIN ret.S21
        /\ DOMAIN ret.S22 = DOMAIN ret.S11
        /\ \A i \in DOMAIN ret.S21 : ret.S12[i] = ret.S21[i]
        /\ \A i \in DOMAIN ret.S11 : ret.S22[i] = ret.S11[i]

C3_Witness ==
    /\ Returned("calc_s_parameters")
    /\ \E i \in DOMAIN ret.S21 :
        /\ ret.S21[i] # Cx(0, 0)
        /\ ret.S11[i] # Cx(0, 0)
        /\ ret.S21[i] # ret.S11[i]

\* C4: in calc_resonator_s_params, at a sweep sample with f = f_res the
\* result is S11 = 0 and S21 = k, k = 0.1*exp(-g/h), for every gap g.
C4_OnResonance ==
    ret.op = "calc_resonator_s_params" =>
        \A i \in DOMAIN ret.f :
            ret.f[i] = ret.f_res =>
                /\ ret.S11[i] = Cx(0, 0)
                /\ ret.S21[i] = Cx(k_of(obj, ret.g), 0)

C4_Witness ==
    /\ ret.op = "calc_resonator_s_params"
    /\ ret.g = 100
    /\ \E i \in DOMAIN ret.f : ret.f[i] = ret.f_res /\ ret.S21[i].re > 0

\* The forward formula on a new MicrostripAnalysis object with the substrate
\* of the LPFDesign object
ForwardZ0(er, h, tand, w) ==
    calc_microstrip_params(MicrostripAnalysis(er, h, tand, <<5000, 10000, 2>>), w).Z0

\* C5: round trip: the forward formula applied to calc_microstrip_width(Z)
\* recovers Z within tolerance (5 percent here) for every target impedance.
C5_RoundTrip ==
    ret.op = "calc_microstrip_width" =>
        Abs(ForwardZ0(obj.er, obj.h, obj.tand, ret.w) - ret.Z_target)
            <= ret.Z_target \div 20

\* The object as __init__ leaves it, with the constructor values of o
FreshObject(o) ==
    [o EXCEPT !.eff_er = 0, !.Z0 = 0, !.attrs = {"er", "h", "tand", "f", "c"}]

\* C6: history independence: whatever calls came before, a call on a
\* MicrostripAnalysis object returns (or raises) what the same call returns
\* as the first call on a new object with the same er, h, tand and sweep.
C6_HistoryIndependent ==
    /\ ret.op = "calc_microstrip_params" =>
        LET first == calc_microstrip_params(FreshObject(ret.before), ret.w)
        IN  /\ ret.raised = first.raised
            /\ ret.Z0 = first.Z0
            /\ ret.eff_er = first.eff_er
    /\ ret.op = "calc_s_parameters" =>
        LET first == calc_s_parameters(FreshObject(ret.before), ret.w, ret.length)
        IN  /\ ret.raised = first.raised
            /\ ret.Z0 = first.Z0
            /\ ret.S11 = first.S11
            /\ ret.S21 = first.S21
            /\ ret.S12 = first.S12
            /\ ret.S22 = first.S22

\* an earlier call left the values of another width in the object
C6_Witness ==
    /\ Returned("calc_s_parameters")
    /\ "eff_er" \in ret.before.attrs
    /\ ret.before.eff_er # obj.eff_er
    /\ ret.before.Z0 # ret.Z0
    /\ Len(ret.S21) > 0

C8_InvalidGeometryRaised ==
    /\ (ret.op = "calc_microstrip_params" /\ (ret.w <= 0 \/ ret.before.h <= 0))
          => ret.raised = "InvalidGeometry"
    /\ (ret.op = "calc_s_parameters"
          /\ (ret.w <= 0 \/ ret.before.h <= 0 \/ ret.length <= 0))
          => ret.raised = "InvalidGeometry"

InvalidRange(f_range) == f_range[1] <= 0 \/ f_range[2] < f_range[1]

\* C9: a sweep with non-positive or decreasing bounds, and a non-positive
\* cutoff fc, are rejected with InvalidFrequency: no MicrostripAnalysis
\* object that answers a call holds such a sweep (__init__ has rejected it)
\* and no response or design is returned for one.
C9_InvalidFrequencyRaised ==
    /\ Returned("calc_s_parameters") =>
          \A i \in DOMAIN obj.f :
              obj.f[i] > 0 /\ (i > 1 => obj.f[i - 1] <= obj.f[i])
    /\ (ret.op \in {"calc_lpf_response", "calc_resonator_s_params"}
          /\ InvalidRange(ret.f_range))
          => ret.raised = "InvalidFrequency"
    /\ (ret.op = "design_stepped_lpf" /\ ret.fc <= 0)
          => ret.raised = "InvalidFrequency"

\* the sweep of one sample, the i-th of f
OneSample(f, i) == <<f[i], f[i], 1>>

\* C10: every response calculation returns S-parameter arrays with as many
\* entries as its frequency sweep has samples, entry i being the response at
\* sample i of the sweep (self.f for calc_s_parameters, the returned f for
\* calc_lpf_response and calc_resonator_s_params).
C10_AlignedWithSweep ==
    /\ Returned("calc_s_parameters") =>
        /\ \A a \in {ret.S11, ret.S21, ret.S12, ret.S22} : Len(a) = Len(obj.f)
        /\ \A i \in DOMAIN obj.f :
            LET one == calc_s_parameters(
                           [ret.before EXCEPT !.f = <<obj.f[i]>>], ret.w, ret.length)
            IN  ret.S11[i] = one.S11[1] /\ ret.S21[i] = one.S21[1]
    /\ ret.op = "calc_lpf_response" =>
        /\ Len(ret.f) = ret.f_range[3]
        /\ Len(ret.S11) = Len(ret.f)
        /\ Len(ret.S21) = Len(ret.f)
        /\ \A i \in DOMAIN ret.f :
            LET one == calc_lpf_response(obj, ret.design_before, OneSample(ret.f, i))
            IN  ret.S11[i] = one.S11[1] /\ ret.S21[i] = one.S21[1]
    /\ ret.op = "calc_resonator_s_params" =>
        /\ Len(ret.f) = ret.f_range[3]
        /\ Len(ret.S11) = Len(ret.f)
        /\ Len(ret.S21) = Len(ret.f)
        /\ \A i \in DOMAIN ret.f :
            LET one == calc_resonator_s_params(obj, ret.d, ret.g, ret.w,
                                               OneSample(ret.f, i))
            IN  ret.S11[i] = one.S11[1] /\ ret.S21[i] = one.S21[1]

\* a response over two samples or more of a design with no low-impedance
\* section
C10_Witness ==
    /\ ret.op = "calc_lpf_response"
    /\ Len(ret.design_before.Z_high) = 1
    /\ Len(ret.design_before.Z_low) = 0
    /\ Len(ret.f) >= 2
    /\ ret.S21[1] # ret.S21[2]

\* the sections of a design as (impedance, width) pairs
Sections(design) ==
    {<<design.Z_high[k], design.widths_high[k]>> : k \in DOMAIN design.Z_high}
    \cup {<<design.Z_low[k], design.widths_low[k]>> : k \in DOMAIN design.Z_low}

\* C11: in the design of design_stepped_lpf(fc=3e9, n=5) on the default
\* substrate every width is positive and a strictly higher impedance has a
\* strictly narrower width (so every high-impedance width is below every
\* low-impedance width).
C11_WidthsDecreaseWithImpedance ==
    (Returned("design_stepped_lpf") /\ ret.fc = 3 * Scale /\ ret.n = 5
        /\ obj.er = 4400 /\ obj.h = 1600) =>
        /\ \A a \in Sections(ret.design) : a[2] > 0
        /\ \A a, b \in Sections(ret.design) : a[1] > b[1] => a[2] < b[2]
        /\ \A i \in DOMAIN ret.design.widths_high, j \in DOMAIN ret.design.widths_low :
               ret.design.widths_high[i] < ret.design.widths_low[j]

C11_Witness ==
    /\ Returned("design_stepped_lpf")
    /\ ret.fc = 3 * Scale /\ ret.n = 5 /\ obj.er = 4400 /\ obj.h = 1600
    /\ ret.design.Z_high[2] > ret.design.Z_high[1]
    /\ ret.design.widths_high[2] < ret.design.widths_high[1]
    /\ ret.design.widths_high[1] < ret.design.widths_low[1]

\* within two percent of full scale
Near(a, b) == Abs(a - b) <= 20

\* C12: with loss tangent 0 and a matched line (rho = 0) calc_s_parameters
\* returns S11 = 0 and S21 of magnitude 1 and phase -beta*length at every
\* sample: the attenuation alpha can be made 0.
C12_LosslessMatched ==
    (Returned("calc_s_parameters") /\ obj.tand = 0 /\ rho_of(ret.Z0) = 0
        /\ ret.length > 0) =>
        \A i \in DOMAIN obj.f :
            obj.f[i] > 0 =>
                LET bl == Mul(beta_of(obj, obj.eff_er)[i], ret.length)
                IN  /\ ret.S11[i] = Cx(0, 0)
                    /\ Near(ret.S21[i].re, Cos(bl))
                    /\ Near(ret.S21[i].im, -Sin(bl))

\* C13: the width returned by calc_microstrip_width lies in the forward
\* regime of the inverse branch taken: Z < 44 gives w/h >= 1 and Z >= 44 gives
\* w/h < 1.
C13_BranchConsistent ==
    ret.op = "calc_microstrip_width" =>
        IF ret.Z_target < 44 * Scale
        THEN Div(ret.w, obj.h) >= Scale
        ELSE Div(ret.w, obj.h) < Scale

\* C14: in calc_resonator_s_params the length (and f_res) returned is
\* selected by d: a call that differs only in d returns another length; the
\* gap g changes only the coupling term k.
C14_LengthSelectedByD ==
    ret.op = "calc_resonator_s_params" =>
        /\ \A d \in Dims \ {ret.d} :
              calc_resonator_s_params(obj, d, ret.g, ret.w, ret.f_range).length
                  # ret.length
        /\ \A g \in Gaps :
              LET other == calc_resonator_s_params(obj, ret.d, g, ret.w, ret.f_range)
              IN  other.length = ret.length /\ other.f_res = ret.f_res

\* C15: design_stepped_lpf visits i = 1..n in order; section i is high
\* impedance when i is odd and low impedance when i is even, computed from
\* the element value g[i] (g[1]..g[5], never g[0] or the load g[6]); every
\* high impedance is above 50 ohm and every low one below.
C15_Alternation ==
    Returned("design_stepped_lpf") =>
        /\ Len(ret.design.Z_high) = (ret.n + 1) \div 2
        /\ Len(ret.design.Z_low) = ret.n \div 2
        /\ \A k \in DOMAIN ret.design.Z_high :
              /\ 2 * k - 1 \in 1..5
              /\ ret.design.Z_high[k] = Z_h_formula(obj, g_table[2 * k])
              /\ ret.design.Z_high[k] > 50 * Scale
        /\ \A k \in DOMAIN ret.design.Z_low :
              /\ 2 * k \in 1..5
              /\ ret.design.Z_low[k] = Z_l_formula(obj, g_table[2 * k + 1])
              /\ ret.design.Z_low[k] < 50 * Scale

\* C16: calc_microstrip_params takes the permittivity and the impedance from
\* the same regime, the wide-line one when w/h >= 1 (w = h included) and the
\* narrow-line one otherwise; calc_microstrip_width at Z_target = 44 takes
\* the Z >= 44 branch.
C16_SameRegime ==
    /\ Returned("calc_microstrip_params") =>
        LET er == ret.before.er
            h  == ret.before.h
        IN  IF ret.w >= h
            THEN /\ ret.eff_er = eff_er_wide(er, h, ret.w)
                 /\ ret.Z0 = Z0_wide(ret.eff_er, h, ret.w)
            ELSE /\ ret.eff_er = eff_er_narrow(er, h, ret.w)
                 /\ ret.Z0 = Z0_narrow(ret.eff_er, h, ret.w)
    /\ (ret.op = "calc_microstrip_width" /\ ret.Z_target = 44 * Scale) =>
        ret.w = Mul(w_h_high(obj.er, ret.Z_target), obj.h)

\* the boundary w = h, where the two regimes give different values
C16_Witness ==
    /\ Returned("calc_microstrip_params")
    /\ ret.w = ret.before.h
    /\ ret.Z0 # Z0_narrow(ret.eff_er, ret.before.h, ret.w)
    /\ ret.eff_er = eff_er_wide(ret.before.er, ret.before.h, ret.w)

\* C17: after a calc_microstrip_params / calc_s_parameters call that
\* returns, self.Z0 and self.eff_er are the pair of the width of that call,
\* and er, h, tand, f and c hold the values they had before.
C17_StoredPairOfLastWidth ==
    (Returned("calc_microstrip_params") \/ Returned("calc_s_parameters")) =>
        LET first == calc_microstrip_params(FreshObject(ret.before), ret.w)
        IN  /\ {"eff_er", "Z0"} \subseteq obj.attrs
            /\ obj.eff_er = first.eff_er
            /\ obj.Z0 = first.Z0
            /\ obj.Z0 = ret.Z0
            /\ ret.op = "calc_microstrip_params" => obj.eff_er = ret.eff_er
            /\ obj.er = ret.before.er
            /\ obj.h = ret.before.h
            /\ obj.tand = ret.before.tand
            /\ obj.f = ret.before.f
            /\ obj.c = ret.before.c

\* the object held the pair of another width before the call
C17_Witness ==
    /\ Returned("calc_microstrip_params")
    /\ {"eff_er", "Z0"} \subseteq ret.before.attrs
    /\ ret.before.Z0 # obj.Z0
    /\ ret.before.eff_er # obj.eff_er

\* C18: for every target impedance below 44 ohm calc_microstrip_width
\* returns one width, fixed by er and h; so the low-impedance widths of a
\* design are all the same, whatever the impedances.
C18_ConstantWidthBelow44 ==
    /\ (ret.op = "calc_microstrip_width" /\ ret.Z_target < 44 * Scale) =>
        \A Z \in {z \in ZTargets : z < 44 * Scale} \cup {1, 43999} :
            calc_microstrip_width(obj, Z) = ret.w
    /\ Returned("design_stepped_lpf") =>
        \A k \in DOMAIN ret.design.widths_low :
            /\ ret.design.Z_low[k] < 44 * Scale
            /\ ret.design.widths_low[k] = ret.design.widths_low[1]
            /\ ret.design.widths_low[k] = calc_microstrip_width(obj, 20 * Scale)

\* a design whose low impedances differ
C18_Witness ==
    /\ Returned("design_stepped_lpf")
    /\ Len(ret.design.Z_low) >= 3
    /\ ret.design.Z_low[3] # ret.design.Z_low[1]
    /\ ret.design.widths_low[3] = ret.design.widths_low[1]
====
